---------------------------- MODULE Spec2Model ----------------------------
(***************************************************************************)
(* Flight Tracker (src/main.py): a FastAPI application with two routes,    *)
(* GET / and GET /track, the latter backed by fetch_flight_state, which    *)
(* issues one GET to the OpenSky "states/all" endpoint, scans the returned *)
(* state vectors for the requested callsign and projects the match into a  *)
(* named-field record.                                                     *)
(*                                                                         *)
(* Text is modelled as a sequence of one-character strings, Python's None  *)
(* as the one-element sequence <<"None">>, a state vector as a sequence    *)
(* whose source index i lives at TLA+ index i + 1.                         *)
(***************************************************************************)
EXTENDS Integers, Sequences, FiniteSets, TLC

VARIABLES
    pc,              \* per request: "idle", "awaiting" (suspended at line 73), "done"
    path,            \* per request: the URL path asked for
    param,           \* per request: the callsign query parameter, None when absent
    callsign_clean,  \* per request: the local of line 70
    upstream,        \* per request: what the outbound call produced
    result,          \* per request: the HTTP response sent to the caller
    calls,           \* per request: outbound GETs issued so far
    elapsed          \* per request: seconds the pending outbound call has waited

vars == <<pc, path, param, callsign_clean, upstream, result, calls, elapsed>>

---------------------------------------------------------------------------
(* Bounds of the model *)

MaxLen == 2        \* longest callsign parameter, in characters
MaxStates == 2     \* longest upstream states list
NumReq == 2        \* inbound requests in flight

(* The per-call timeout of httpx.AsyncClient(timeout=15.0), in seconds *)
TIMEOUT == 15

Reqs == 1..NumReq

---------------------------------------------------------------------------
(* Text: str.strip and str.upper *)

Alphabet == {"a", "A", " "}

None == <<"None">>

IsSpace(c) == c = " "

UpperChar(c) == IF c = "a" THEN "A" ELSE c

Upper(s) == [i \in DOMAIN s |-> UpperChar(s[i])]

RECURSIVE LStrip(_)
LStrip(s) ==
    IF s # <<>> /\ IsSpace(Head(s)) THEN LStrip(Tail(s)) ELSE s

RECURSIVE RStrip(_)
RStrip(s) ==
    IF s # <<>> /\ IsSpace(s[Len(s)]) THEN RStrip(SubSeq(s, 1, Len(s) - 1)) ELSE s

Strip(s) == RStrip(LStrip(s))

\* callsign.strip().upper()
Normalize(s) == Upper(Strip(s))

\* (state[1] or "")
OrEmpty(x) == IF x = None THEN <<>> ELSE x

StringsUpTo(n) == UNION {[1..k -> Alphabet] : k \in 0..n}

---------------------------------------------------------------------------
(* The upstream API: state vectors and response bodies *)

\* The 17 positions of an upstream state vector, position i at index i + 1
UpstreamFields ==
    << "icao24", "callsign", "origin_country", "time_position", "last_contact",
       "longitude", "latitude", "baro_altitude", "on_ground", "velocity",
       "true_track", "vertical_rate", "sensors", "geo_altitude", "squawk",
       "spi", "position_source" >>

\* The value vector k carries at a position: tagged with the position's name
\* and with k marks, so that no two positions of no two vectors agree
FieldValue(k, i) == <<UpstreamFields[i]>> \o [j \in 1..k |-> "#"]

\* Vector k with callsign field cs, cut to its first n positions
Vec(k, cs, n) == [i \in 1..n |-> IF i = 2 THEN cs ELSE FieldValue(k, i)]

\* state[i] of the source
At(state, i) == state[i + 1]

\* Callsign fields the upstream sends: null, blank, padded, lower case, longer
UpstreamCallsigns ==
    { None, <<" ">>, <<"A">>, <<"a", " ">>, <<"A", "A">>, <<"A", " ", "A">> }

\* A full vector has 17 positions; a cut one stops before position_source
VecLens == {Len(UpstreamFields) - 1, Len(UpstreamFields)}

\* What may stand at place k of a states list: a vector with a callsign
\* field, full or cut, or a vector of the icao24 alone
VectorsAt(k) ==
    {Vec(k, cs, n) : cs \in UpstreamCallsigns, n \in VecLens} \cup {Vec(k, None, 1)}

RECURSIVE StatesLists(_)
StatesLists(n) ==
    IF n = 0 THEN {<<>>}
    ELSE LET shorter == StatesLists(n - 1)
         IN  shorter \cup {Append(l, v) : l \in {x \in shorter : Len(x) = n - 1},
                                          v \in VectorsAt(n)}

\* Response bodies: not JSON at all, a JSON object without "states", one
\* with "states": null, one with a list of vectors
Bodies ==
    { [kind |-> k, states |-> <<>>] : k \in {"not_json", "no_states", "null_states"} }
    \cup { [kind |-> "list", states |-> l] : l \in StatesLists(MaxStates) }

UpstreamStatuses == {200, 503}

\* What the awaited GET of line 73 can produce
NoUpstream == [kind |-> "none"]
Response(code, body) == [kind |-> "response", status_code |-> code, body |-> body]
TransportFailure(exc) == [kind |-> "request_error", exc |-> exc]

---------------------------------------------------------------------------
(* HTTP responses sent to the caller *)

NoResult == [status_code |-> 0, body |-> [pending |-> TRUE]]

\* A returned dict, serialised as JSON with status 200
JSONResponse(content) == [status_code |-> 200, body |-> content]

\* raise HTTPException(status_code=code, detail=detail)
HTTPException(code, detail) == [status_code |-> code, body |-> [detail |-> detail]]

\* An exception no handler catches leaves the application as a plain 500
InternalServerError == [status_code |-> 500, body |-> [text |-> <<"Internal Server Error">>]]

\* A required query parameter that is absent
RequestValidationError == HTTPException(422, <<"Field required">>)

\* A path no route matches
RouteNotFound == HTTPException(404, <<"Not Found">>)

HTMLResponse(text) == [status_code |-> 200, body |-> [html |-> text]]

IsRecord(res) == "icao24" \in DOMAIN res.body

---------------------------------------------------------------------------
(* fetch_flight_state, from the point where the awaited GET resumes *)

\* The dict with longitude and latitude taken from each other's position
ProjectSwapped(state, state_callsign) ==
    [ icao24          |-> At(state, 0),
      callsign        |-> state_callsign,
      origin_country  |-> At(state, 2),
      time_position   |-> At(state, 3),
      last_contact    |-> At(state, 4),
      longitude       |-> At(state, 6),
      latitude        |-> At(state, 5),
      baro_altitude   |-> At(state, 7),
      on_ground       |-> At(state, 8),
      velocity        |-> At(state, 9),
      true_track      |-> At(state, 10),
      vertical_rate   |-> At(state, 11),
      geo_altitude    |-> At(state, 13),
      squawk          |-> At(state, 14),
      spi             |-> At(state, 15),
      position_source |-> At(state, 16) ]

\* The dict with the sensors position kept
ProjectWithSensors(state, state_callsign) ==
    [ icao24          |-> At(state, 0),
      callsign        |-> state_callsign,
      origin_country  |-> At(state, 2),
      time_position   |-> At(state, 3),
      last_contact    |-> At(state, 4),
      longitude       |-> At(state, 5),
      latitude        |-> At(state, 6),
      baro_altitude   |-> At(state, 7),
      on_ground       |-> At(state, 8),
      velocity        |-> At(state, 9),
      true_track      |-> At(state, 10),
      vertical_rate   |-> At(state, 11),
      sensors         |-> At(state, 12),
      geo_altitude    |-> At(state, 13),
      squawk          |-> At(state, 14),
      spi             |-> At(state, 15),
      position_source |-> At(state, 16) ]

\* The dict of lines 86-104
Project(state, state_callsign) ==
    [ icao24          |-> At(state, 0),
      callsign        |-> state_callsign,
      origin_country  |-> At(state, 2),
      time_position   |-> At(state, 3),
      last_contact    |-> At(state, 4),
      longitude       |-> At(state, 5),
      latitude        |-> At(state, 6),
      baro_altitude   |-> At(state, 7),
      on_ground       |-> At(state, 8),
      velocity        |-> At(state, 9),
      true_track      |-> At(state, 10),
      vertical_rate   |-> At(state, 11),
      geo_altitude    |-> At(state, 13),
      squawk          |-> At(state, 14),
      spi             |-> At(state, 15),
      position_source |-> At(state, 16) ]

\* The positions the dict literal reads
ProjectedPositions == (0..16) \ {1, 12}

\* A comparison by prefix: state_callsign.startswith(callsign_clean)
MatchesPrefix(state_callsign, clean) ==
    /\ Len(clean) <= Len(state_callsign)
    /\ SubSeq(state_callsign, 1, Len(clean)) = clean

\* state_callsign == callsign_clean
Matches(state_callsign, clean) == state_callsign = clean

\* The for loop of lines 82-104 from list place i on, and line 106 after it.
\* Indexing a vector past its end raises IndexError, which nothing catches.
RECURSIVE Scan(_, _, _)
Scan(states, i, clean) ==
    IF i > Len(states) THEN
        HTTPException(404, <<"Flight not found or not currently tracked">>)
    ELSE LET state == states[i] IN
        IF 1 \notin 0..(Len(state) - 1) THEN InternalServerError
        ELSE LET state_callsign == Normalize(OrEmpty(At(state, 1))) IN
            IF Matches(state_callsign, clean) THEN
                IF ProjectedPositions \subseteq 0..(Len(state) - 1)
                THEN JSONResponse(Project(state, state_callsign))
                ELSE InternalServerError
            ELSE Scan(states, i + 1, clean)

\* data.get("states", []) or []
StatesOf(body) == IF body.kind = "list" THEN body.states ELSE <<>>

\* except httpx.RequestError as exc (line 77-78)
OnRequestError(exc) == HTTPException(502, <<"Error contacting OpenSky API: ", exc>>)

\* resp.status_code != 200 (line 74-75)
OnBadStatus(resp) == HTTPException(502, <<"Failed to fetch data from OpenSky API">>)

\* Lines 73-106 once the GET has produced `up`; resp.json() on a body that
\* is not JSON raises a ValueError, which is no httpx.RequestError
Resume(clean, up) ==
    IF up.kind = "request_error" THEN OnRequestError(up.exc)
    ELSE IF up.status_code # 200 THEN OnBadStatus(up)
    ELSE IF up.body.kind = "not_json" THEN InternalServerError
    ELSE Scan(StatesOf(up.body), 1, clean)

---------------------------------------------------------------------------
(* The application: routes and the steps of a request *)

\* @app.get("/") and @app.get("/track")
Routes == {"/", "/track"}

\* Paths a caller asks for
Paths == Routes \cup {"/region"}

\* callsign_clean kept in a module-level variable, one for all requests
StoreGlobal(f, r, v) == [x \in DOMAIN f |-> v]

\* callsign_clean is a local of the coroutine: each request has its own
StoreLocal(f, r, v) == [f EXCEPT ![r] = v]

Init ==
    /\ pc = [r \in Reqs |-> "idle"]
    /\ path = [r \in Reqs |-> ""]
    /\ param = [r \in Reqs |-> None]
    /\ callsign_clean = [r \in Reqs |-> <<>>]
    /\ upstream = [r \in Reqs |-> NoUpstream]
    /\ result = [r \in Reqs |-> NoResult]
    /\ calls = [r \in Reqs |-> 0]
    /\ elapsed = [r \in Reqs |-> 0]

\* GET / : the landing page, read from the static directory
Root(r, present) ==
    /\ pc[r] = "idle"
    /\ path' = [path EXCEPT ![r] = "/"]
    /\ result' = [result EXCEPT ![r] =
            IF present THEN HTMLResponse(<<"index.html">>) ELSE InternalServerError]
    /\ pc' = [pc EXCEPT ![r] = "done"]
    /\ UNCHANGED <<param, callsign_clean, upstream, calls, elapsed>>

\* A path outside the route table
NoRoute(r, p) ==
    /\ pc[r] = "idle"
    /\ p \notin Routes
    /\ path' = [path EXCEPT ![r] = p]
    /\ result' = [result EXCEPT ![r] = RouteNotFound]
    /\ pc' = [pc EXCEPT ![r] = "done"]
    /\ UNCHANGED <<param, callsign_clean, upstream, calls, elapsed>>

\* GET /track : Query(...) makes callsign required and nothing more; the
\* handler then runs fetch_flight_state up to the awaited GET of line 73
TrackFlight(r, callsign) ==
    /\ pc[r] = "idle"
    /\ path' = [path EXCEPT ![r] = "/track"]
    /\ param' = [param EXCEPT ![r] = callsign]
    /\ \/ /\ callsign = None
          /\ result' = [result EXCEPT ![r] = RequestValidationError]
          /\ pc' = [pc EXCEPT ![r] = "done"]
          /\ UNCHANGED <<callsign_clean, calls>>
       \/ /\ callsign # None
          /\ callsign_clean' = StoreLocal(callsign_clean, r, Normalize(callsign))
          /\ calls' = [calls EXCEPT ![r] = @ + 1]
          /\ pc' = [pc EXCEPT ![r] = "awaiting"]
          /\ UNCHANGED result
    /\ UNCHANGED <<upstream, elapsed>>

\* A client built with timeout=None: the timer never runs out
NeverTimedOut(r) == FALSE

\* The timeout of line 72 has run out
TimedOut(r) == elapsed[r] = TIMEOUT

\* A second passes while the GET is pending; the wait is counted up to
\* TIMEOUT seconds and no further
Tick(r) ==
    /\ pc[r] = "awaiting"
    /\ ~TimedOut(r)
    /\ elapsed[r] < TIMEOUT
    /\ elapsed' = [elapsed EXCEPT ![r] = @ + 1]
    /\ UNCHANGED <<pc, path, param, callsign_clean, upstream, result, calls>>

\* A coroutine that tries the GET again after a failure
CompleteWithRetry(r, up) ==
    IF Resume(callsign_clean[r], up).status_code = 502
    THEN /\ calls' = [calls EXCEPT ![r] = @ + 1]
         /\ elapsed' = [elapsed EXCEPT ![r] = 0]
         /\ UNCHANGED <<pc, path, param, callsign_clean, upstream, result>>
    ELSE /\ upstream' = [upstream EXCEPT ![r] = up]
         /\ result' = [result EXCEPT ![r] = Resume(callsign_clean[r], up)]
         /\ pc' = [pc EXCEPT ![r] = "done"]
         /\ elapsed' = [elapsed EXCEPT ![r] = 0]
         /\ UNCHANGED <<path, param, callsign_clean, calls>>

\* The coroutine resumes with what the GET produced and runs to its end;
\* leaving the `async with` block closes the client and its timer
Complete(r, up) ==
    /\ upstream' = [upstream EXCEPT ![r] = up]
    /\ result' = [result EXCEPT ![r] = Resume(callsign_clean[r], up)]
    /\ pc' = [pc EXCEPT ![r] = "done"]
    /\ elapsed' = [elapsed EXCEPT ![r] = 0]
    /\ UNCHANGED <<path, param, callsign_clean, calls>>

\* The upstream answers in time
UpstreamResponds(r, code, body) ==
    /\ pc[r] = "awaiting"
    /\ elapsed[r] < TIMEOUT
    /\ Complete(r, Response(code, body))

\* The connection fails: httpx.ConnectError, httpx.ReadError are RequestErrors
RequestFails(r, exc) ==
    /\ pc[r] = "awaiting"
    /\ Complete(r, TransportFailure(exc))

\* httpx raises a TimeoutException, a RequestError too
Timeout(r) ==
    /\ pc[r] = "awaiting"
    /\ TimedOut(r)
    /\ Complete(r, TransportFailure("ReadTimeout"))

TransportErrors == {"ConnectError", "ReadError"}

\* The callsign parameter: absent, or any text up to MaxLen characters
Params == {None} \cup StringsUpTo(MaxLen)

\* One request, every input
Next ==
    \/ \E present \in BOOLEAN : Root(1, present)
    \/ \E p \in Paths : NoRoute(1, p)
    \/ \E callsign \in Params : TrackFlight(1, callsign)
    \/ Tick(1)
    \/ \E code \in UpstreamStatuses, body \in Bodies : UpstreamResponds(1, code, body)
    \/ \E exc \in TransportErrors : RequestFails(1, exc)
    \/ Timeout(1)

Spec == Init /\ [][Next]_vars

\* Several requests at once, each with one of two callsigns and an upstream
\* that has one aircraft or none to report
ConcParams == {<<"a">>, <<"A", "A">>}

ConcBodies ==
    { [kind |-> "list", states |-> <<Vec(1, <<"A">>, Len(UpstreamFields))>>],
      [kind |-> "null_states", states |-> <<>>] }

StepOf(r) ==
    \/ \E callsign \in ConcParams : TrackFlight(r, callsign)
    \/ Tick(r)
    \/ \E code \in UpstreamStatuses, body \in ConcBodies : UpstreamResponds(r, code, body)
    \/ \E exc \in TransportErrors : RequestFails(r, exc)
    \/ Timeout(r)

NextConc == \E r \in Reqs : StepOf(r)

\* Time passes for a pending call and httpx fires its timer; nothing
\* obliges a caller to send a request or the upstream to answer
SpecConc ==
    /\ Init
    /\ [][NextConc]_vars
    /\ \A r \in Reqs : WF_vars(Tick(r)) /\ WF_vars(Timeout(r))

---------------------------------------------------------------------------
(* Vocabulary of the properties, stated without the operators above *)

AllSpaces(s) == \A i \in DOMAIN s : s[i] = " "

\* t is s without its leading and trailing whitespace
IsTrimOf(t, s) ==
    \E a, b \in 0..Len(s) :
        /\ a + b <= Len(s)
        /\ t = SubSeq(s, a + 1, Len(s) - b)
        /\ AllSpaces(SubSeq(s, 1, a))
        /\ AllSpaces(SubSeq(s, Len(s) - b + 1, Len(s)))
        /\ t # <<>> => t[1] # " " /\ t[Len(t)] # " "

\* The trimmed form of s: the one infix of s that IsTrimOf accepts
TrimOf(s) ==
    CHOOSE t \in {SubSeq(s, a + 1, Len(s) - b) : a, b \in 0..Len(s)} : IsTrimOf(t, s)

UpperOf(t) == [i \in DOMAIN t |-> IF t[i] = "a" THEN "A" ELSE t[i]]

\* x trimmed and upper-cased; a null callsign field counts as empty
Canonical(x) == UpperOf(TrimOf(IF x = None THEN <<>> ELSE x))

\* Request r went to /track, passed validation and has been answered
Answered(r) == pc[r] = "done" /\ path[r] = "/track" /\ param[r] # None

\* Request r got an upstream response with status 200
Got200(r) == upstream[r].kind = "response" /\ upstream[r].status_code = 200

\* The upstream body of request r is a JSON object whose states, when there
\* are any, are state vectors: 17 positions each
Conforms(r) ==
    /\ upstream[r].body.kind # "not_json"
    /\ \A i \in DOMAIN upstream[r].body.states :
           Len(upstream[r].body.states[i]) = Len(UpstreamFields)

\* The list places of request r's response whose callsign field equals the
\* parameter, both trimmed and upper-cased
MatchPlaces(r) ==
    LET states == upstream[r].body.states
    IN  {i \in DOMAIN states : Canonical(states[i][2]) = Canonical(param[r])}

FirstMatch(r) == CHOOSE i \in MatchPlaces(r) : \A j \in MatchPlaces(r) : i <= j

\* The names of the record: every position's name but sensors
RecordFields == {UpstreamFields[i] : i \in DOMAIN UpstreamFields} \ {"sensors"}

\* res is the record of vector v: each field holds the value at the
\* position of its name, callsign the canonical callsign
IsProjectionOf(res, v) ==
    /\ res.status_code = 200
    /\ DOMAIN res.body = RecordFields
    /\ \A i \in DOMAIN UpstreamFields :
           UpstreamFields[i] \notin {"sensors", "callsign"}
               => res.body[UpstreamFields[i]] = v[i]
    /\ res.body.callsign = Canonical(v[2])

IsNotFound(res) == res.status_code = 404 /\ DOMAIN res.body = {"detail"}

IsUpstreamUnavailable(res) == res.status_code = 502 /\ DOMAIN res.body = {"detail"}

---------------------------------------------------------------------------
(* C1: when the upstream answers 200 with a states list of state vectors   *)
(* of which at least one has the parameter's callsign (both trimmed and    *)
(* upper-cased), /track answers 200 with the projection of the first such  *)
(* vector: each named field is the value at its position, callsign the     *)
(* trimmed, upper-cased callsign field.                                    *)
C1_FirstMatchProjected ==
    \A r \in Reqs :
        Answered(r) /\ Got200(r) /\ Conforms(r) /\ MatchPlaces(r) # {}
            => IsProjectionOf(result[r], upstream[r].body.states[FirstMatch(r)])

\* Two vectors match, and the parameter is written differently from the
\* callsign field of the first
C1_Witness ==
    \E r \in Reqs :
        /\ Answered(r) /\ Got200(r) /\ Conforms(r)
        /\ Cardinality(MatchPlaces(r)) >= 2
        /\ upstream[r].body.states[FirstMatch(r)][2] # param[r]
        /\ upstream[r].body.states[FirstMatch(r)][2] # result[r].body.callsign
        /\ result[r].status_code = 200

(* C2: when the upstream answers 200 with a JSON object whose states are   *)
(* null, missing, empty or state vectors none of which has the parameter's *)
(* callsign (trimmed, upper-cased, compared exactly), /track answers 404   *)
(* and no record.                                                          *)
C2_NoMatchNotFound ==
    \A r \in Reqs :
        Answered(r) /\ Got200(r) /\ Conforms(r) /\ MatchPlaces(r) = {}
            => IsNotFound(result[r]) /\ ~IsRecord(result[r])

\* The parameter is a proper prefix of the only callsign on offer
C2_Witness ==
    \E r \in Reqs :
        /\ Answered(r) /\ Got200(r) /\ Conforms(r) /\ MatchPlaces(r) = {}
        /\ param[r] = <<"a">>
        /\ Len(upstream[r].body.states) = 1
        /\ upstream[r].body.states[1][2] = <<"A", "A">>
        /\ IsNotFound(result[r])

(* C3 as claimed: when the upstream answers with a status other than 200,  *)
(* /track answers 502, returns no record, and its response carries the     *)
(* upstream's status.                                                      *)
\* The status line of an upstream response, as text
StatusText(code) ==
    CASE code = 200 -> "200 OK"
      [] code = 503 -> "503 Service Unavailable"

CarriesStatus(res, code) ==
    \E i \in DOMAIN res.body.detail : res.body.detail[i] = StatusText(code)

C3_StatusForwarded ==
    \A r \in Reqs :
        Answered(r) /\ upstream[r].kind = "response" /\ upstream[r].status_code # 200
            => /\ IsUpstreamUnavailable(result[r])
               /\ ~IsRecord(result[r])
               /\ CarriesStatus(result[r], upstream[r].status_code)

(* C4 as claimed: a /track request whose callsign is missing, empty or     *)
(* blank is answered with a 4xx and no outbound call is made for it.       *)
C4_BlankRejectedBeforeCall ==
    \A r \in Reqs :
        pc[r] # "idle" /\ path[r] = "/track" /\ (param[r] = None \/ AllSpaces(param[r]))
            => /\ calls[r] = 0
               /\ pc[r] = "done"
               /\ result[r].status_code \in 400..499

(* C6: a /track request makes at most one outbound call, whatever comes    *)
(* of it: exactly one once validation has passed, none otherwise, and the  *)
(* count stands at one when the request ends in a failure.                 *)
C6_AtMostOneCall ==
    \A r \in Reqs :
        /\ calls[r] <= 1
        /\ (pc[r] # "idle" /\ path[r] = "/track" /\ param[r] # None) => calls[r] = 1
        /\ (pc[r] = "idle" \/ path[r] # "/track" \/ param[r] = None) => calls[r] = 0

\* A request ended in 502 after a transport failure, having called once
C6_Witness ==
    \E r \in Reqs :
        /\ Answered(r)
        /\ upstream[r].kind = "request_error"
        /\ result[r].status_code = 502
        /\ calls[r] = 1

(* C7 as claimed: GET /region with four numeric bounds is answered 200     *)
(* with an empty JSON array when the upstream has no states to report.     *)
C7_RegionEmptyArray ==
    \A r \in Reqs :
        pc[r] = "done" /\ path[r] = "/region" => result[r] = JSONResponse(<<>>)

(* C9 as claimed: the record returned on a match has exactly 15 named      *)
(* fields.                                                                 *)
C9_FifteenFields ==
    \A r \in Reqs :
        Answered(r) /\ IsRecord(result[r]) => Cardinality(DOMAIN result[r].body) = 15

(* C9, amended: the record returned on a match has exactly 16 named        *)
(* fields, one for each of the 17 positions of the state vector but        *)
(* sensors (position 12), and the sensors value of no vector of the        *)
(* response appears in it.                                                 *)
C9_SixteenFieldsNoSensors ==
    \A r \in Reqs :
        Answered(r) /\ IsRecord(result[r])
            => /\ Cardinality(DOMAIN result[r].body) = 16
               /\ DOMAIN result[r].body = RecordFields
               /\ \A f \in DOMAIN result[r].body, i \in DOMAIN upstream[r].body.states :
                      LET v == upstream[r].body.states[i]
                      IN  13 \in DOMAIN v => result[r].body[f] # v[13]

\* A record was returned from a response whose vectors carry sensors values
C9_Witness ==
    \E r \in Reqs :
        /\ Answered(r) /\ IsRecord(result[r])
        /\ Len(upstream[r].body.states) = MaxStates
        /\ \A i \in DOMAIN upstream[r].body.states : 13 \in DOMAIN upstream[r].body.states[i]

(* C10 as claimed: every /track request that passes validation ends in 200 *)
(* with a complete record, in 404 or in 502, whatever the upstream does.   *)
C10_ThreeOutcomes ==
    \A r \in Reqs :
        Answered(r)
            => \/ result[r].status_code = 200 /\ DOMAIN result[r].body = RecordFields
               \/ IsNotFound(result[r])
               \/ IsUpstreamUnavailable(result[r])

(* C5: an outbound call that fails at transport level or outlasts the     *)
(* 15-second timeout ends the request as an upstream failure: the request  *)
(* never waits past the timeout, a pending request is always answered in   *)
(* the end, the step that ends a request whose timer has run out answers   *)
(* 502, and a transport failure is answered 502 without a record.          *)
C5_FailureEndsIn502 ==
    /\ [](\A r \in Reqs : elapsed[r] <= TIMEOUT)
    /\ [](\A r \in Reqs :
            Answered(r) /\ upstream[r].kind = "request_error"
                => IsUpstreamUnavailable(result[r]) /\ ~IsRecord(result[r]))
    /\ \A r \in Reqs : (pc[r] = "awaiting") ~> (pc[r] = "done")
    /\ [][\A r \in Reqs :
              pc[r] = "awaiting" /\ elapsed[r] = TIMEOUT /\ pc'[r] # "awaiting"
                  => /\ pc'[r] = "done"
                     /\ upstream'[r].kind = "request_error"
                     /\ IsUpstreamUnavailable(result'[r])]_vars

\* A request whose call timed out has been answered 502
C5_Witness ==
    \E r \in Reqs :
        /\ Answered(r)
        /\ upstream[r] = TransportFailure("ReadTimeout")
        /\ IsUpstreamUnavailable(result[r])

(* C8: with several /track requests in flight, a request suspended on its  *)
(* upstream call leaves every other unfinished request able to take its    *)
(* next step; a step of one request changes nothing of another; and each   *)
(* request works on its own callsign, so that two requests with the same   *)
(* callsign and the same upstream response get the same answer.            *)
Frame(r) ==
    <<pc[r], path[r], param[r], callsign_clean[r], upstream[r], result[r],
      calls[r], elapsed[r]>>

C8_NotBlocked ==
    \A r, s \in Reqs :
        r # s /\ pc[r] = "awaiting" /\ pc[s] # "done" => ENABLED StepOf(s)

C8_OwnInputs ==
    /\ \A r \in Reqs : pc[r] = "awaiting" => callsign_clean[r] = Canonical(param[r])
    /\ \A r, s \in Reqs :
          Answered(r) /\ Answered(s) /\ param[r] = param[s] /\ upstream[r] = upstream[s]
              => result[r] = result[s]

C8_Independent ==
    /\ [](C8_NotBlocked /\ C8_OwnInputs)
    /\ [][\A r, s \in Reqs : r # s /\ Frame(r)' # Frame(r) => Frame(s)' = Frame(s)]_vars

\* One request is answered with a record while another, sent earlier with
\* a different callsign, is still suspended on its upstream call
C8_Witness ==
    \E r, s \in Reqs :
        /\ r # s
        /\ pc[r] = "awaiting" /\ elapsed[r] > 0
        /\ Answered(s) /\ IsRecord(result[s])
        /\ param[r] # param[s]

===========================================================================
